---- MODULE Spec2Model ----
(***************************************************************************)
(* Model of Data Structures/Merkel Tree/merkel_tree.py: the MerkleTree     *)
(* class (build_tree, get_root, update_leaf) driven the way main() drives  *)
(* it.  Strings are sequences of tokens; '+' on strings is \o.  A digest   *)
(* is the symbolic term of the SHA-256 call that produced it, so two       *)
(* digests are equal exactly when they were computed from equal inputs     *)
(* (no collisions).  Python list indices are 0-based in the source and     *)
(* 1-based here: source tree[i][j] is tree[i+1][j+1].                      *)
(***************************************************************************)
EXTENDS Integers, Sequences, FiniteSets

MaxLeaves == 5      \* longest leaf list handed to build_tree
MaxUpdates == 2     \* update_leaf calls after one build_tree
MaxNeg == 1         \* most negative leaf_index tried is -MaxNeg

\* The raw leaf values main() uses.
Raw == {"data1", "new_data1"}

VARIABLES
    tree,               \* self.tree: list of layers, leaves first
    leaf_nodes,         \* main's leaf_nodes: the raw leaf values
    hashed_leaf_nodes,  \* main's hashed_leaf_nodes: the list passed to build_tree
    updates,            \* the update_leaf calls made since the last build_tree
    last                \* the last call: its arguments and its outcome

vars == <<tree, leaf_nodes, hashed_leaf_nodes, updates, last>>

None == <<"None">>
NoError == ""
OutOfBounds == "IndexError: Leaf index is out of bounds"
ListIndex == "IndexError: list index out of range"
ListAssign == "IndexError: list assignment index out of range"

----------------------------------------------------------------------------
\* hash_data

\* json.dumps of a str: the text between double quotes.
json_dumps(data) == <<"\"">> \o data \o <<"\"">>

\* hashlib.sha256(...).hexdigest(), as a collision-free symbolic term.
sha256_hexdigest(bytes) == <<"sha256(">> \o bytes \o <<")">>

hash_data(data) == sha256_hexdigest(json_dumps(data))

----------------------------------------------------------------------------
\* Python list indexing: a negative index counts from the end, anything
\* outside the list raises IndexError.

py_norm(list, k) == IF k < 0 THEN k + Len(list) ELSE k

py_in_range(list, k) == py_norm(list, k) >= 0 /\ py_norm(list, k) < Len(list)

py_get(list, k) == list[py_norm(list, k) + 1]

py_set(list, k, v) == [list EXCEPT ![py_norm(list, k) + 1] = v]

\* n ^ 1 on Python integers: flips the lowest bit.
xor1(n) == IF n % 2 = 0 THEN n + 1 ELSE n - 1

----------------------------------------------------------------------------
\* build_tree

\* One iteration of the for loop: the parent of current_layer[i], [i+1].
next_node(current_layer, i) ==
    IF i + 1 < Len(current_layer)
    THEN hash_data(py_get(current_layer, i) \o py_get(current_layer, i + 1))
    ELSE hash_data(py_get(current_layer, i) \o py_get(current_layer, i))

\* for i in range(0, len(current_layer), 2): next_layer.append(next_node)
RECURSIVE layer_loop(_, _, _)
layer_loop(current_layer, i, acc) ==
    IF i >= Len(current_layer)
    THEN acc
    ELSE layer_loop(current_layer, i + 2, Append(acc, next_node(current_layer, i)))

\* The loop with the unpaired last node left out.
next_layer_drop(current_layer) ==
    layer_loop(SubSeq(current_layer, 1, Len(current_layer) - (Len(current_layer) % 2)), 0, <<>>)

next_layer(current_layer) == layer_loop(current_layer, 0, <<>>)

\* while len(self.tree[-1]) > 1: ... self.tree.append(next_layer)
RECURSIVE build_loop(_)
build_loop(t) ==
    IF Len(t[Len(t)]) > 1
    THEN build_loop(Append(t, next_layer(t[Len(t)])))
    ELSE t

build_tree(leaves) == build_loop(<<leaves>>)

----------------------------------------------------------------------------
\* get_root: [raised, result]

get_root(t) ==
    IF t = <<>>
    THEN [raised |-> NoError, result |-> None]
    ELSE IF Len(t[Len(t)]) = 0
         THEN [raised |-> ListIndex, result |-> None]
         ELSE [raised |-> NoError, result |-> t[Len(t)][1]]

----------------------------------------------------------------------------
\* update_leaf: [tree, raised]

\* The ancestor position one place to the right of the leaf's own.
node_index_shifted(leaf_index, i) == (leaf_index + 1) \div (2 ^ i)

\* node_index = leaf_index // (2 ** i)   (floor division)
node_index(leaf_index, i) == leaf_index \div (2 ^ i)

\* The positions of layer i-1 the branch taken reads.
reads(below, n) ==
    IF n * 2 + 1 >= Len(below) THEN {n * 2}
    ELSE IF n % 2 = 0 THEN {n * 2, n * 2 + 1}
    ELSE {xor1(n) * 2, n * 2}

\* The value the branch taken computes for self.tree[i][node_index].
recalc_value(below, n) ==
    IF n * 2 + 1 >= Len(below)
    THEN hash_data(py_get(below, n * 2))
    ELSE IF n % 2 = 0
         THEN hash_data(py_get(below, n * 2) \o py_get(below, n * 2 + 1))
         ELSE hash_data(py_get(below, xor1(n) * 2) \o py_get(below, n * 2))

\* for i in range(1, len(self.tree)): one layer per step, leaving the
\* writes already made in place when an index raises.  The right-hand side
\* is evaluated before the store, so a failed read raises first.
RECURSIVE recalc_loop(_, _, _)
recalc_loop(t, i, leaf_index) ==
    IF i >= Len(t)
    THEN [tree |-> t, raised |-> NoError]
    ELSE LET n == node_index(leaf_index, i)
             below == t[i]
         IN  IF \E k \in reads(below, n) : ~py_in_range(below, k)
             THEN [tree |-> t, raised |-> ListIndex]
             ELSE IF ~py_in_range(t[i + 1], n)
             THEN [tree |-> t, raised |-> ListAssign]
             ELSE recalc_loop(
                      [t EXCEPT ![i + 1] = py_set(t[i + 1], n, recalc_value(below, n))],
                      i + 1, leaf_index)

update_leaf(t, leaf_index, new_value) ==
    IF t = <<>>
    THEN [tree |-> t, raised |-> ListIndex]
    ELSE IF leaf_index >= Len(t[1])
         THEN [tree |-> t, raised |-> OutOfBounds]
         ELSE IF ~py_in_range(t[1], leaf_index)
              THEN [tree |-> t, raised |-> ListAssign]
              ELSE recalc_loop(
                       [t EXCEPT ![1] = py_set(t[1], leaf_index, hash_data(new_value))],
                       1, leaf_index)

----------------------------------------------------------------------------
\* The program

LeafLists == UNION {[1..n -> Raw] : n \in 0..MaxLeaves}

Indexes == (0 - MaxNeg)..MaxLeaves

\* MerkleTree(): self.tree = []
Init ==
    /\ tree = <<>>
    /\ leaf_nodes = <<>>
    /\ hashed_leaf_nodes = <<>>
    /\ updates = <<>>
    /\ last = [op |-> "__init__", leaf_index |-> 0, new_value |-> <<>>,
               raised |-> NoError, result |-> None]

\* main: hashed_leaf_nodes = [hash_data(leaf) ...]; build_tree(hashed_leaf_nodes)
\* build_tree overwrites every variable, so the state it leaves does not
\* depend on the state it starts from; the runs explored rebuild a tree only
\* while it has not been updated, which reaches the same states.
BuildTree ==
    /\ updates = <<>>
    /\ \E leaves \in LeafLists :
        LET hashed == [k \in 1..Len(leaves) |-> hash_data(<<leaves[k]>>)]
        IN  /\ leaf_nodes' = leaves
            /\ hashed_leaf_nodes' = hashed
            /\ tree' = build_tree(hashed)
            /\ updates' = <<>>
            /\ last' = [op |-> "build_tree", leaf_index |-> 0, new_value |-> <<>>,
                        raised |-> NoError, result |-> None]

GetRoot ==
    /\ last' = [op |-> "get_root", leaf_index |-> 0, new_value |-> <<>>,
                raised |-> get_root(tree).raised, result |-> get_root(tree).result]
    /\ UNCHANGED <<tree, leaf_nodes, hashed_leaf_nodes, updates>>

\* self.tree[0] is the very list the caller passed (self.tree = [leaf_nodes]),
\* so a write to self.tree[0] is a write to the caller's list.
UpdateLeaf ==
    /\ Len(updates) < MaxUpdates
    /\ \E leaf_index \in Indexes, v \in Raw :
        LET r == update_leaf(tree, leaf_index, <<v>>)
        IN  /\ tree' = r.tree
            /\ hashed_leaf_nodes' = IF tree = <<>> THEN hashed_leaf_nodes ELSE r.tree[1]
            /\ updates' = Append(updates, [leaf_index |-> leaf_index, new_value |-> <<v>>])
            /\ last' = [op |-> "update_leaf", leaf_index |-> leaf_index, new_value |-> <<v>>,
                        raised |-> r.raised, result |-> None]
    /\ UNCHANGED leaf_nodes

Next == BuildTree \/ GetRoot \/ UpdateLeaf

Spec == Init /\ [][Next]_vars

----------------------------------------------------------------------------
\* Vocabulary of the properties

\* A tree built from at least one leaf.
Built == tree # <<>> /\ Len(tree[1]) >= 1

\* leafCount
LeafCount == Len(tree[1])

InBounds(k) == 0 <= k /\ k < LeafCount

\* Every update_leaf call since build_tree had 0 <= index < L.
AllInBounds == \A u \in 1..Len(updates) : InBounds(updates[u].leaf_index)

\* The pairing rule of the data model: node j (0-based) above a layer.
\* Digests are collision-free terms, so the rule is over ordered inputs.
digest(x) == <<"sha256(", "\"">> \o x \o <<"\"", ")">>

PairOf(layer, j) ==
    IF 2 * j + 1 < Len(layer)
    THEN digest(layer[2 * j + 1] \o layer[2 * j + 2])
    ELSE digest(layer[2 * j + 1] \o layer[2 * j + 1])

\* The last call was an update_leaf with an index in bounds that returned.
UpdatedInBounds ==
    /\ last.op = "update_leaf"
    /\ Built
    /\ InBounds(last.leaf_index)
    /\ last.raised = NoError

\* The step is an update_leaf call on a built tree with an index in bounds.
UpdateStepInBounds ==
    /\ last'.op = "update_leaf"
    /\ Built
    /\ InBounds(last'.leaf_index)

\* The root of a tree that has one.
Root(t) == t[Len(t)][1]

----------------------------------------------------------------------------
\* C1: after build_tree on L >= 1 leaves and any update_leaf calls with
\* 0 <= index < L, every node above the leaves is the pairing of its two
\* children, or of its only child with itself.
C1_PairingInvariant ==
    (Built /\ AllInBounds) =>
        \A i \in 2..Len(tree) : \A j \in 1..Len(tree[i]) :
            tree[i][j] = PairOf(tree[i - 1], j - 1)

\* C2: update_leaf(i, new_value) followed by update_leaf(i, original_value)
\* gives back exactly the root build_tree produced.
C2_Reversibility ==
    ( /\ Built
      /\ Len(updates) = 2
      /\ InBounds(updates[1].leaf_index)
      /\ updates[2].leaf_index = updates[1].leaf_index
      /\ updates[2].new_value = <<leaf_nodes[updates[1].leaf_index + 1]>> )
    => Root(tree) =
         Root(build_tree([k \in 1..Len(leaf_nodes) |-> hash_data(<<leaf_nodes[k]>>)]))

\* C3: on a built tree update_leaf(-1, x) and update_leaf(leafCount, x) end
\* in the index-out-of-bounds error and leave every node as it was.
C3_OutOfBoundsUnchanged ==
    [][ ( /\ last'.op = "update_leaf"
          /\ Built
          /\ last'.leaf_index \in {0 - 1, LeafCount} )
        => (last'.raised = OutOfBounds /\ tree' = tree) ]_vars

\* C4: get_root reports "no root", and fails in no other way, on a tree never
\* built and on a tree built from no leaves; building from no leaves leaves
\* the state of a tree never built.
C4_EmptyTreeRoot ==
    /\ (last.op = "get_root" /\ hashed_leaf_nodes = <<>>)
           => (last.raised = NoError /\ last.result = None)
    /\ (last.op = "build_tree" /\ hashed_leaf_nodes = <<>>) => tree = <<>>

\* C5: update_leaf(i, v) with 0 <= i < L and hash_data(v) different from the
\* current leaf i changes the root.
C5_Sensitivity ==
    [][ ( /\ UpdateStepInBounds
          /\ hash_data(last'.new_value) # tree[1][last'.leaf_index + 1] )
        => Root(tree') # Root(tree) ]_vars

\* C6: update_leaf(idx, v) with 0 <= idx < L changes no node other than
\* layers[0][idx] and layers[i][idx >> i], and keeps the number of layers and
\* the length of every layer.
C6_UpdateFrame ==
    [][ UpdateStepInBounds =>
          /\ Len(tree') = Len(tree)
          /\ \A i \in 1..Len(tree) :
                /\ Len(tree'[i]) = Len(tree[i])
                /\ \A j \in 1..Len(tree[i]) :
                      (j - 1) # (last'.leaf_index \div (2 ^ (i - 1)))
                          => tree'[i][j] = tree[i][j] ]_vars

\* A 5-leaf tree (layers 5, 3, 2, 1) whose leaf 2 was just updated.
C6_Witness ==
    /\ UpdatedInBounds
    /\ LeafCount = 5
    /\ Len(tree) = 4
    /\ last.leaf_index = 2
    /\ tree[1][3] = hash_data(last.new_value)

\* C7: build_tree on L >= 1 leaf digests leaves layers[0] equal to its input,
\* every later layer of length ceil(len(previous)/2) and a last layer of
\* length 1; for L = 1 there is one layer and get_root is the leaf itself.
C7_BuiltShape ==
    (last.op = "build_tree" /\ Len(hashed_leaf_nodes) >= 1) =>
        /\ Len(tree) >= 1
        /\ tree[1] = hashed_leaf_nodes
        /\ \A i \in 2..Len(tree) : Len(tree[i]) = (Len(tree[i - 1]) + 1) \div 2
        /\ Len(tree[Len(tree)]) = 1
        /\ Len(hashed_leaf_nodes) = 1 =>
              /\ Len(tree) = 1
              /\ get_root(tree) = [raised |-> NoError, result |-> hashed_leaf_nodes[1]]

\* A tree just built from 5 leaves: two odd-length layers in a row.
C7_Witness ==
    /\ last.op = "build_tree"
    /\ Len(hashed_leaf_nodes) = 5
    /\ Len(tree) = 4
    /\ Len(tree[2]) = 3

\* C8: after build_tree(leaves), an update_leaf on the tree (here one with its
\* index in bounds) leaves the caller's own leaves sequence unchanged.
C8_NoAliasing ==
    [][ UpdateStepInBounds => hashed_leaf_nodes' = hashed_leaf_nodes ]_vars

\* C9: update_leaf writes, at every ancestor whose right child exists, the digest
\* of its left child followed by its right child, whatever the parity of the
\* ancestor's index.
C9_BranchCollapse ==
    UpdatedInBounds =>
        \A i \in 2..Len(tree) :
            LET n == last.leaf_index \div (2 ^ (i - 1))
            IN  (2 * n + 1 < Len(tree[i - 1])) =>
                    tree[i][n + 1] =
                        digest(tree[i - 1][2 * n + 1] \o tree[i - 1][2 * n + 2])

\* C10: update_leaf writes, at an ancestor with no right child, the digest of
\* its only child followed by itself, as build_tree does.
C10_SelfPair ==
    UpdatedInBounds =>
        \A i \in 2..Len(tree) :
            LET n == last.leaf_index \div (2 ^ (i - 1))
            IN  (2 * n + 1 >= Len(tree[i - 1])) =>
                    /\ tree[i][n + 1] =
                           digest(tree[i - 1][2 * n + 1] \o tree[i - 1][2 * n + 1])
                    /\ tree[i][n + 1] = next_node(tree[i - 1], 2 * n)

====
